---- MODULE Spec2Model ----
(***************************************************************************)
(* Translation graph and pivot resolution of argostranslate/translate.py.  *)
(*                                                                         *)
(* The model covers the OPENNMT provider branch of                         *)
(* get_installed_languages(): loading languages and direct edges from the  *)
(* installed translate packages, adding identity edges, the pivot closure  *)
(* (one step per iteration of its innermost loop, so that appending to a   *)
(* list while it is iterated is modelled as Python executes it), the       *)
(* "English first" ordering, the lookup layer, the hypothesis combination  *)
(* of CompositeTranslation and the lazy backend initialisation of          *)
(* PackageTranslation under concurrent callers.                            *)
(*                                                                         *)
(* get_installed_languages() is deterministic in the installed packages,   *)
(* so the graph every lookup rebuilds is the graph built here once.        *)
(***************************************************************************)
EXTENDS Integers, Sequences, FiniteSets, TLC

\* ------------------------------------------------------------------ bounds
MaxPkgs == 3          \* longest list of installed translate packages
NumTexts == 2         \* texts are 0 .. NumTexts-1
MaxHyp == 2           \* largest num_hypotheses requested
NumSeeds == 2         \* behaviours of the external inference backend
MaxCalls == 1         \* lookup, hypotheses() or translate() calls per run
NumThreads == 2       \* concurrent callers of PackageTranslation.hypotheses
MaxPkgsThreads == 2   \* package list length under SpecThreads

Codes == <<"en", "es", "fr", "de">>
CodeSet == {Codes[i] : i \in 1..Len(Codes)}
UnknownCode == "xx"
Texts == 0..(NumTexts - 1)
Seeds == 0..(NumSeeds - 1)
Threads == 1..NumThreads
None == 0             \* Python's None, and "no edge" in an edge field

VARIABLES packages, phase, languages, edges, translations_from, translations_to,
          li, ti, t2i, keep_adding_translations, passes,
          result, calls, translator, constructed, pc, target

graphVars == <<languages, edges, translations_from, translations_to>>
loopVars == <<li, ti, t2i, keep_adding_translations, passes>>
callVars == <<result, calls>>
threadVars == <<pc, target>>
handleVars == <<translator, constructed>>
vars == <<packages, phase, languages, edges, translations_from, translations_to,
          li, ti, t2i, keep_adding_translations, passes,
          result, calls, translator, constructed, pc, target>>

\* ------------------------------------------------------------ data model
\* pkg.from_name / pkg.to_name: the display name a package gives a code.
LangName(code) ==
    CASE code = "en" -> "English"
      [] code = "es" -> "Spanish"
      [] code = "fr" -> "French"
      [] code = "de" -> "German"
      [] OTHER -> "Unknown"

\* Position of a display name in Python's string order (used by sort(key=name)).
NameRank(name) ==
    CASE name = "English" -> 1
      [] name = "French" -> 2
      [] name = "German" -> 3
      [] name = "Spanish" -> 4
      [] OTHER -> 5

\* Language.__init__: code and name; the two edge lists are kept in
\* translations_from / translations_to, keyed by the language's code.
Language(code, name) == [code |-> code, name |-> name]

PackageTranslation(from_lang, to_lang, pkg) ==
    [kind |-> "package", from_lang |-> from_lang, to_lang |-> to_lang,
     pkg |-> pkg, t1 |-> None, t2 |-> None]

IdentityTranslation(lang) ==
    [kind |-> "identity", from_lang |-> lang, to_lang |-> lang,
     pkg |-> None, t1 |-> None, t2 |-> None]

\* CompositeTranslation.__init__: from_lang = t1.from_lang, to_lang = t2.to_lang.
CompositeTranslation(E, t1, t2) ==
    [kind |-> "composite", from_lang |-> E[t1].from_lang, to_lang |-> E[t2].to_lang,
     pkg |-> None, t1 |-> t1, t2 |-> t2]

\* list(filter(pred, s)) for a sequence of edge ids.
RECURSIVE FilterTo(_, _, _)
FilterTo(E, s, code) ==
    IF s = <<>> THEN <<>>
    ELSE LET rest == FilterTo(E, Tail(s), code)
         IN IF E[Head(s)].to_lang = code THEN <<Head(s)>> \o rest ELSE rest

\* Which of the matching edges Language.get_translation returns.
PickLast(valid_translations) == valid_translations[Len(valid_translations)]
PickValid(valid_translations) == valid_translations[1]

\* Language.get_translation(to): first edge of translations_from[lang] whose
\* to_lang.code equals to.code, else None.
get_translation(E, TF, lang, to) ==
    LET valid_translations == FilterTo(E, TF[lang], to)
    IN IF Len(valid_translations) > 0 THEN PickValid(valid_translations) ELSE None

\* ------------------------------------------------- get_installed_languages
Package(from_code, to_code) == [from_code |-> from_code, to_code |-> to_code]
PackageSet == {Package(f, t) : f \in CodeSet, t \in CodeSet}
PackageLists(n) == UNION {[1..k -> PackageSet] : k \in 0..n}

EmptyGraph ==
    [languages |-> <<>>, edges |-> <<>>,
     translations_from |-> [c \in CodeSet |-> <<>>],
     translations_to |-> [c \in CodeSet |-> <<>>]]

HasCode(langs, code) == \E i \in 1..Len(langs) : langs[i].code = code

\* language_of_code[code] = Language(code, name) unless the code is a key already;
\* languages = list(language_of_code.values()) keeps insertion order.
AddLanguage(langs, code) ==
    IF HasCode(langs, code) THEN langs ELSE Append(langs, Language(code, LangName(code)))

\* Append edge e to the heap and to both endpoints' lists.
AttachEdge(g, e) ==
    LET id == Len(g.edges) + 1
    IN [g EXCEPT !.edges = Append(@, e),
                 !.translations_from[e.from_lang] = Append(@, id),
                 !.translations_to[e.to_lang] = Append(@, id)]

\* One iteration of "for pkg in packages".
LoadPackage(g, pkgs, k) ==
    LET pkg == pkgs[k]
        g1 == [g EXCEPT !.languages = AddLanguage(AddLanguage(@, pkg.from_code), pkg.to_code)]
    IN AttachEdge(g1, PackageTranslation(pkg.from_code, pkg.to_code, k))

RECURSIVE LoadPackages(_, _)
LoadPackages(pkgs, k) ==
    IF k = 0 THEN EmptyGraph ELSE LoadPackage(LoadPackages(pkgs, k - 1), pkgs, k)

\* "for language in languages": add an IdentityTranslation to each language.
RECURSIVE AddIdentities(_, _)
AddIdentities(g, k) ==
    IF k = 0 THEN g
    ELSE AttachEdge(AddIdentities(g, k - 1), IdentityTranslation(g.languages[k].code))

\* The condition guarding the synthesis of CompositeTranslation(translation, translation_2).
WrongDestination(E, TF, language, translation, translation_2) ==
    get_translation(E, TF, language, E[translation].to_lang) = None
AlwaysAdd(E, TF, language, translation, translation_2) == TRUE
NoTranslationYet(E, TF, language, translation, translation_2) ==
    get_translation(E, TF, language, E[translation_2].to_lang) = None

\* Whether a pass that added an edge asks for another pass.
AlwaysRepeat(added, keep) == TRUE
KeepAdding(added, keep) == IF added THEN TRUE ELSE keep

\* Stable insertion of a language into a list sorted by name.
RECURSIVE InsertByName(_, _)
InsertByName(sorted, l) ==
    IF sorted = <<>> THEN <<l>>
    ELSE IF NameRank(l.name) < NameRank(Head(sorted).name)
         THEN <<l>> \o sorted
         ELSE <<Head(sorted)>> \o InsertByName(Tail(sorted), l)

RECURSIVE SortByName(_)
SortByName(langs) ==
    IF langs = <<>> THEN <<>>
    ELSE InsertByName(SortByName(SubSeq(langs, 1, Len(langs) - 1)), langs[Len(langs)])

RemoveAt(s, i) == SubSeq(s, 1, i - 1) \o SubSeq(s, i + 1, Len(s))

\* Put English first if available, the rest sorted by name.
OrderLanguages(langs) ==
    LET en == {i \in 1..Len(langs) : langs[i].code = "en"}
    IN IF en = {} THEN SortByName(langs)
       ELSE LET en_index == CHOOSE i \in en : \A j \in en : i <= j
            IN <<langs[en_index]>> \o SortByName(RemoveAt(langs, en_index))

Init ==
    /\ packages \in PackageLists(MaxPkgs)
    /\ phase = "start"
    /\ languages = <<>>
    /\ edges = <<>>
    /\ translations_from = [c \in CodeSet |-> <<>>]
    /\ translations_to = [c \in CodeSet |-> <<>>]
    /\ li = 0 /\ ti = 0 /\ t2i = 0
    /\ keep_adding_translations = FALSE
    /\ passes = 0
    /\ result = [op |-> "none"]
    /\ calls = 0
    /\ translator = [k \in 1..MaxPkgs |-> None]
    /\ constructed = [k \in 1..MaxPkgs |-> 0]
    /\ pc = [t \in Threads |-> "idle"]
    /\ target = [t \in Threads |-> None]

\* The language, the edge "translation" and its destination M at the loop position.
CurLanguage == languages[li].code
CurTranslation == translations_from[CurLanguage][ti]
CurPivot == edges[CurTranslation].to_lang

\* Lines 301-327 and the entry into the closure loops for the first language
\* (keep_adding_translations is True, the while test passes and resets it).
LoadLanguages ==
    /\ phase = "start"
    /\ LET g0 == LoadPackages(packages, Len(packages))
           g == AddIdentities(g0, Len(g0.languages))
       IN /\ edges' = g.edges
          /\ translations_from' = g.translations_from
          /\ translations_to' = g.translations_to
          /\ IF g.languages = <<>>
               THEN /\ languages' = OrderLanguages(g.languages)
                    /\ phase' = "done"
                    /\ UNCHANGED loopVars
               ELSE /\ languages' = g.languages
                    /\ phase' = "pivot"
                    /\ li' = 1 /\ ti' = 1 /\ t2i' = 1
                    /\ keep_adding_translations' = FALSE
                    /\ passes' = 1
    /\ UNCHANGED <<packages, callVars, handleVars, threadVars>>

\* One iteration of "for translation_2 in translation.to_lang.translations_from".
PivotInner ==
    /\ phase = "pivot"
    /\ t2i <= Len(translations_from[CurPivot])
    /\ LET translation == CurTranslation
           translation_2 == translations_from[CurPivot][t2i]
           added == NoTranslationYet(edges, translations_from, CurLanguage,
                                     translation, translation_2)
           composite_translation == CompositeTranslation(edges, translation, translation_2)
           id == Len(edges) + 1
       IN /\ keep_adding_translations' = KeepAdding(added, keep_adding_translations)
          /\ IF added
               THEN /\ edges' = Append(edges, composite_translation)
                    /\ translations_from' =
                         [translations_from EXCEPT ![CurLanguage] = Append(@, id)]
                    /\ translations_to' =
                         [translations_to EXCEPT ![composite_translation.to_lang] = Append(@, id)]
               ELSE UNCHANGED <<edges, translations_from, translations_to>>
    /\ t2i' = t2i + 1
    /\ UNCHANGED <<packages, phase, languages, li, ti, passes, callVars, handleVars, threadVars>>

InnerExhausted == phase = "pivot" /\ t2i > Len(translations_from[CurPivot])
OuterExhausted == InnerExhausted /\ ti >= Len(translations_from[CurLanguage])

\* The inner loop is exhausted: next element of language.translations_from,
\* which may be an edge appended during this very pass.
PivotNextTranslation ==
    /\ InnerExhausted
    /\ ti < Len(translations_from[CurLanguage])
    /\ ti' = ti + 1
    /\ t2i' = 1
    /\ UNCHANGED <<packages, phase, graphVars, li, keep_adding_translations, passes,
                   callVars, handleVars, threadVars>>

\* The pass added something: the while loop scans the list again.
PivotRepeatPass ==
    /\ OuterExhausted
    /\ keep_adding_translations
    /\ keep_adding_translations' = FALSE
    /\ passes' = passes + 1
    /\ ti' = 1 /\ t2i' = 1
    /\ UNCHANGED <<packages, phase, graphVars, li, callVars, handleVars, threadVars>>

\* The pass added nothing: the closure moves to the next language.
PivotNextLanguage ==
    /\ OuterExhausted
    /\ ~keep_adding_translations
    /\ li < Len(languages)
    /\ li' = li + 1
    /\ passes' = 1
    /\ ti' = 1 /\ t2i' = 1
    /\ UNCHANGED <<packages, phase, graphVars, keep_adding_translations,
                   callVars, handleVars, threadVars>>

\* The last language is closed: lines 374-387, order the list and return it.
ReturnLanguages ==
    /\ OuterExhausted
    /\ ~keep_adding_translations
    /\ li = Len(languages)
    /\ languages' = OrderLanguages(languages)
    /\ phase' = "done"
    /\ UNCHANGED <<packages, edges, translations_from, translations_to, loopVars,
                   callVars, handleVars, threadVars>>

\* One call of get_installed_languages(), from its entry to its return.
Next ==
    \/ LoadLanguages
    \/ PivotInner
    \/ PivotNextTranslation
    \/ PivotRepeatPass
    \/ PivotNextLanguage
    \/ ReturnLanguages

Spec == Init /\ [][Next]_vars

\* ------------------------------------------------------------ lookup layer
RECURSIVE FilterCode(_, _)
FilterCode(langs, code) ==
    IF langs = <<>> THEN <<>>
    ELSE IF Head(langs).code = code
         THEN <<Head(langs)>> \o FilterCode(Tail(langs), code)
         ELSE FilterCode(Tail(langs), code)

\* list(...)[0]: the first element, IndexError on an empty list.  "value" holds
\* the returned Language as a list of one element, an empty list when nothing
\* is returned.
FirstOrDefault(found, langs) ==
    IF Len(found) > 0 THEN [outcome |-> "return", value |-> <<found[1]>>]
    ELSE IF Len(langs) > 0 THEN [outcome |-> "return", value |-> <<langs[1]>>]
    ELSE [outcome |-> "IndexError", value |-> <<>>]
FirstElement(found, langs) ==
    IF Len(found) > 0 THEN [outcome |-> "return", value |-> <<found[1]>>]
    ELSE [outcome |-> "IndexError", value |-> <<>>]

get_language_from_code(langs, code) == FirstElement(FilterCode(langs, code), langs)

\* Both languages are resolved (an unknown code raises), then
\* from_lang.get_translation(to_lang); "edge" is None when that returns None.
get_translation_from_codes(langs, E, TF, from_code, to_code) ==
    LET from_lang == get_language_from_code(langs, from_code)
        to_lang == get_language_from_code(langs, to_code)
    IN IF from_lang.outcome # "return" \/ to_lang.outcome # "return"
       THEN [outcome |-> "IndexError", edge |-> None]
       ELSE [outcome |-> "return",
             edge |-> get_translation(E, TF, from_lang.value[1].code, to_lang.value[1].code)]

RequestCodes == CodeSet \cup {UnknownCode}

GetLanguageFromCode ==
    /\ phase = "done"
    /\ calls < MaxCalls
    /\ \E code \in RequestCodes :
         LET r == get_language_from_code(languages, code)
         IN result' = [op |-> "get_language_from_code", code |-> code,
                       outcome |-> r.outcome, value |-> r.value]
    /\ calls' = calls + 1
    /\ UNCHANGED <<packages, phase, graphVars, loopVars, handleVars, threadVars>>

GetTranslationFromCodes ==
    /\ phase = "done"
    /\ calls < MaxCalls
    /\ \E from_code \in RequestCodes, to_code \in RequestCodes :
         LET r == get_translation_from_codes(languages, edges, translations_from,
                                             from_code, to_code)
         IN result' = [op |-> "get_translation_from_codes", from_code |-> from_code,
                       to_code |-> to_code, outcome |-> r.outcome, edge |-> r.edge]
    /\ calls' = calls + 1
    /\ UNCHANGED <<packages, phase, graphVars, loopVars, handleVars, threadVars>>

NextLookup ==
    \/ LoadLanguages
    \/ PivotInner
    \/ PivotNextTranslation
    \/ PivotRepeatPass
    \/ PivotNextLanguage
    \/ ReturnLanguages
    \/ GetLanguageFromCode
    \/ GetTranslationFromCodes

SpecLookup == Init /\ [][NextLookup]_vars

\* ------------------------------------------------------------- hypotheses
Hypothesis(value, score) == [value |-> value, score |-> score]

\* The external inference backend (ctranslate2 translate_batch with
\* detokenisation): hypothesis number i for text x of package k.  Scores are
\* log-likelihoods, here integers; hypothesis 1 is the best.  seed selects one of
\* the backend behaviours considered.
BackendValue(k, x, i, seed) == (x + k + i + seed) % NumTexts
BackendScore(k, x, i, seed) == 0 - (i * (1 + ((x + k + seed) % 2)))

\* apply_packaged_translation: value_hypotheses[i] for i in range(num_hypotheses).
apply_packaged_translation(k, input_text, num_hypotheses, seed) ==
    [i \in 1..num_hypotheses |->
        Hypothesis(BackendValue(k, input_text, i, seed), BackendScore(k, input_text, i, seed))]

\* Hypothesis.__lt__
HypLess(a, b) == a.score < b.score

\* list.sort(): stable, ascending by __lt__ (insertion keeps equal elements in order).
RECURSIVE InsertHyp(_, _)
InsertHyp(sorted, h) ==
    IF sorted = <<>> THEN <<h>>
    ELSE IF HypLess(h, Head(sorted))
         THEN <<h>> \o sorted
         ELSE <<Head(sorted)>> \o InsertHyp(Tail(sorted), h)

RECURSIVE SortHyps(_)
SortHyps(s) ==
    IF s = <<>> THEN <<>>
    ELSE InsertHyp(SortHyps(SubSeq(s, 1, Len(s) - 1)), s[Len(s)])

\* to_return[0:num_hypotheses]
NoSlice(to_return, num_hypotheses) == to_return
Slice(to_return, num_hypotheses) ==
    SubSeq(to_return, 1, IF num_hypotheses < Len(to_return) THEN num_hypotheses
                         ELSE Len(to_return))

\* The text CompositeTranslation hands to t2 for one hypothesis of t1.
UnchainedInput(input_text, t1_hypothesis) == input_text
ChainedInput(input_text, t1_hypothesis) == t1_hypothesis.value

\* Hypothesis(t2_hypothesis.value, t1_hypothesis.score + t2_hypothesis.score)
Combine(t1_hypothesis, t2_hypotheses) ==
    [j \in 1..Len(t2_hypotheses) |->
        Hypothesis(t2_hypotheses[j].value, t1_hypothesis.score + t2_hypotheses[j].score)]

\* IdentityTranslation.hypotheses: the input, with score 0, in every slot.
DroppedTextHypotheses(input_text, num_hypotheses) ==
    [i \in 1..num_hypotheses |-> Hypothesis(0, 0)]
IdentityHypotheses(input_text, num_hypotheses) ==
    [i \in 1..num_hypotheses |-> Hypothesis(input_text, 0)]

RECURSIVE hypotheses(_, _, _, _, _)
RECURSIVE CrossProduct(_, _, _, _, _, _, _)

\* The double loop of CompositeTranslation.hypotheses over t1_hypotheses[1..upto].
CrossProduct(E, t2, t1_hypotheses, upto, input_text, num_hypotheses, seed) ==
    IF upto = 0 THEN <<>>
    ELSE LET t1_hypothesis == t1_hypotheses[upto]
             t2_hypotheses == hypotheses(E, t2, ChainedInput(input_text, t1_hypothesis),
                                         num_hypotheses, seed)
         IN CrossProduct(E, t2, t1_hypotheses, upto - 1, input_text, num_hypotheses, seed)
              \o Combine(t1_hypothesis, t2_hypotheses)

\* ITranslation.hypotheses, dispatched on the variant of edge e.
hypotheses(E, e, input_text, num_hypotheses, seed) ==
    CASE E[e].kind = "package" ->
           apply_packaged_translation(E[e].pkg, input_text, num_hypotheses, seed)
      [] E[e].kind = "identity" ->
           IdentityHypotheses(input_text, num_hypotheses)
      [] E[e].kind = "composite" ->
           LET t1_hypotheses == hypotheses(E, E[e].t1, input_text, num_hypotheses, seed)
               to_return == CrossProduct(E, E[e].t2, t1_hypotheses, Len(t1_hypotheses),
                                         input_text, num_hypotheses, seed)
           IN Slice(SortHyps(to_return), num_hypotheses)

\* ITranslation.translate
translate(E, e, input_text, seed) == hypotheses(E, e, input_text, 1, seed)[1].value

\* The packages whose PackageTranslation.hypotheses a call on edge e reaches.
RECURSIVE PackagesUsed(_, _)
PackagesUsed(E, e) ==
    CASE E[e].kind = "package" -> {E[e].pkg}
      [] E[e].kind = "identity" -> {}
      [] E[e].kind = "composite" -> PackagesUsed(E, E[e].t1) \cup PackagesUsed(E, E[e].t2)

\* "if self.translator is None: self.translator = ctranslate2.Translator(...)"
\* for every package edge reached by a call made by a single caller.
InitTranslators(used) ==
    /\ translator' = [k \in DOMAIN translator |->
                        IF k \in used /\ translator[k] = None
                        THEN constructed[k] + 1 ELSE translator[k]]
    /\ constructed' = [k \in DOMAIN constructed |->
                        IF k \in used /\ translator[k] = None
                        THEN constructed[k] + 1 ELSE constructed[k]]

Hypotheses ==
    /\ phase = "done"
    /\ calls < MaxCalls
    /\ \E e \in 1..Len(edges), x \in Texts, n \in 1..MaxHyp, seed \in Seeds :
         /\ result' = [op |-> "hypotheses", edge |-> e, text |-> x, n |-> n,
                       seed |-> seed, value |-> hypotheses(edges, e, x, n, seed)]
         /\ InitTranslators(PackagesUsed(edges, e))
    /\ calls' = calls + 1
    /\ UNCHANGED <<packages, phase, graphVars, loopVars, threadVars>>

Translate ==
    /\ phase = "done"
    /\ calls < MaxCalls
    /\ \E e \in 1..Len(edges), x \in Texts, seed \in Seeds :
         /\ result' = [op |-> "translate", edge |-> e, text |-> x,
                       seed |-> seed, value |-> translate(edges, e, x, seed)]
         /\ InitTranslators(PackagesUsed(edges, e))
    /\ calls' = calls + 1
    /\ UNCHANGED <<packages, phase, graphVars, loopVars, threadVars>>

NextHyp ==
    \/ LoadLanguages
    \/ PivotInner
    \/ PivotNextTranslation
    \/ PivotRepeatPass
    \/ PivotNextLanguage
    \/ ReturnLanguages
    \/ Hypotheses
    \/ Translate

SpecHyp == Init /\ [][NextHyp]_vars

\* ------------------------------------- PackageTranslation.hypotheses, threads
PackageEdges == {e \in 1..Len(edges) : edges[e].kind = "package"}

\* A thread enters hypotheses() on a package edge.
ThreadCall(t) ==
    /\ phase = "done"
    /\ pc[t] = "idle"
    /\ \E e \in PackageEdges : target' = [target EXCEPT ![t] = e]
    /\ pc' = [pc EXCEPT ![t] = "test"]
    /\ UNCHANGED <<packages, phase, graphVars, loopVars, callVars, handleVars>>

\* "if self.translator is None"
ThreadTest(t) ==
    /\ pc[t] = "test"
    /\ pc' = [pc EXCEPT ![t] =
                IF translator[edges[target[t]].pkg] = None THEN "construct" ELSE "apply"]
    /\ UNCHANGED <<packages, phase, graphVars, loopVars, callVars, handleVars, target>>

\* "self.translator = ctranslate2.Translator(model_path, ...)"
ThreadConstruct(t) ==
    /\ pc[t] = "construct"
    /\ LET k == edges[target[t]].pkg
       IN /\ constructed' = [constructed EXCEPT ![k] = @ + 1]
          /\ translator' = [translator EXCEPT ![k] = constructed[k] + 1]
    /\ pc' = [pc EXCEPT ![t] = "apply"]
    /\ UNCHANGED <<packages, phase, graphVars, loopVars, callVars, target>>

\* "return apply_packaged_translation(self.pkg, input_text, self.translator, n)"
ThreadApply(t) ==
    /\ pc[t] = "apply"
    /\ \E x \in Texts, n \in 1..MaxHyp, seed \in Seeds :
         result' = [op |-> "hypotheses", edge |-> target[t], text |-> x, n |-> n,
                    seed |-> seed, value |-> hypotheses(edges, target[t], x, n, seed)]
    /\ pc' = [pc EXCEPT ![t] = "idle"]
    /\ target' = [target EXCEPT ![t] = None]
    /\ UNCHANGED <<packages, phase, graphVars, loopVars, calls, handleVars>>

InitThreads == Init /\ Len(packages) <= MaxPkgsThreads

NextThreads ==
    \/ LoadLanguages
    \/ PivotInner
    \/ PivotNextTranslation
    \/ PivotRepeatPass
    \/ PivotNextLanguage
    \/ ReturnLanguages
    \/ \E t \in Threads : ThreadCall(t)
    \/ \E t \in Threads : ThreadTest(t)
    \/ \E t \in Threads : ThreadConstruct(t)
    \/ \E t \in Threads : ThreadApply(t)

SpecThreads == InitThreads /\ [][NextThreads]_vars

\* ------------------------------------------------------------------ claims
LanguageCodes == {languages[i].code : i \in 1..Len(languages)}
DirectPairs == {<<packages[k].from_code, packages[k].to_code>> : k \in 1..Len(packages)}
IsComposite(e) == e # None /\ edges[e].kind = "composite"
CompositeEdges == {e \in 1..Len(edges) : edges[e].kind = "composite"}

\* The codes some path of direct and identity edges leads to from the codes in S.
RECURSIVE Reach(_)
Reach(S) ==
    LET S2 == S \cup {p[2] : p \in {q \in DirectPairs : q[1] \in S}}
    IN IF S2 = S THEN S ELSE Reach(S2)

\* C1: in the built graph, whenever a path of direct and identity edges leads from
\* language L to language N, L.get_translation(N) returns an edge, and that edge
\* goes from L to N's code.
C1_PathHasEdge ==
    phase = "done" =>
        \A L \in LanguageCodes : \A N \in Reach({L}) :
            LET e == get_translation(edges, translations_from, L, N)
            IN /\ N \in LanguageCodes
               /\ e # None
               /\ edges[e].from_lang = L
               /\ edges[e].to_lang = N

\* A three-hop path: the edge found is a composite one of whose parts is composite.
C1_Witness ==
    /\ phase = "done"
    /\ \E L \in LanguageCodes : \E N \in Reach({L}) :
         LET e == get_translation(edges, translations_from, L, N)
         IN /\ IsComposite(e)
            /\ (IsComposite(edges[e].t1) \/ IsComposite(edges[e].t2))

\* The first package of the list with the codes of package k.
FirstPackage(k) ==
    CHOOSE f \in 1..k : /\ packages[f] = packages[k]
                        /\ \A g \in 1..k : packages[g] = packages[k] => f <= g

\* C2: for every discovered direct edge L->M, get_translation_from_codes(L, M) on
\* the closed graph returns a direct (package) edge from L to M, the first one
\* discovered for that pair, and never a CompositeTranslation.
C2_DirectEdgeReturned ==
    phase = "done" =>
        \A k \in 1..Len(packages) :
            LET r == get_translation_from_codes(languages, edges, translations_from,
                                                packages[k].from_code, packages[k].to_code)
            IN /\ r.outcome = "return"
               /\ r.edge # None
               /\ edges[r.edge].kind = "package"
               /\ edges[r.edge].pkg = FirstPackage(k)
               /\ edges[r.edge].from_lang = packages[k].from_code
               /\ edges[r.edge].to_lang = packages[k].to_code

\* A lookup returned a direct edge out of a language that also got a composite edge.
C2_Witness ==
    /\ result.op = "get_translation_from_codes"
    /\ result.outcome = "return"
    /\ result.edge # None
    /\ edges[result.edge].kind = "package"
    /\ \E c \in CompositeEdges : edges[c].from_lang = result.from_code

\* The n largest scores of a list of hypotheses, largest first.
RECURSIVE InsertDesc(_, _)
InsertDesc(sorted, x) ==
    IF sorted = <<>> THEN <<x>>
    ELSE IF x > Head(sorted) THEN <<x>> \o sorted
         ELSE <<Head(sorted)>> \o InsertDesc(Tail(sorted), x)

RECURSIVE ScoresDesc(_)
ScoresDesc(hs) ==
    IF hs = <<>> THEN <<>>
    ELSE InsertDesc(ScoresDesc(Tail(hs)), Head(hs).score)

\* The n x n combined hypotheses of the composite edge e for one call.
Combined(e, x, n, seed) ==
    LET t1_hypotheses == hypotheses(edges, edges[e].t1, x, n, seed)
    IN CrossProduct(edges, edges[e].t2, t1_hypotheses, Len(t1_hypotheses), x, n, seed)

\* C3: CompositeTranslation.hypotheses(text, n) returns the n highest-scoring
\* combined hypotheses of the n x n cross-product, best first.
C3_TopNDescending ==
    (result.op = "hypotheses" /\ IsComposite(result.edge)) =>
        LET all == Combined(result.edge, result.text, result.n, result.seed)
        IN /\ Len(result.value) = result.n
           /\ \A i \in 1..result.n :
                result.value[i].score = ScoresDesc(all)[i]

\* Two edges of one translations_from list with the same destination code.
SameDestination(L, i, j) ==
    /\ i < j
    /\ j <= Len(translations_from[L])
    /\ edges[translations_from[L][i]].to_lang = edges[translations_from[L][j]].to_lang

\* C4 as stated: no translations_from list of a returned graph holds two edges
\* with the same destination code.
C4_UniqueDestinations ==
    phase = "done" =>
        \A L \in LanguageCodes : \A i, j \in 1..Len(translations_from[L]) :
            ~SameDestination(L, i, j)

\* C4 amended: a synthesized (composite) edge never shares its destination code
\* with another edge of the same translations_from list; two edges share a
\* destination only when the earlier is a direct edge and the later a direct edge
\* of a package with the same codes or, for a package from a code to itself, the
\* identity edge.
C4_CompositeUnique ==
    \A L \in CodeSet : \A i, j \in 1..Len(translations_from[L]) :
        SameDestination(L, i, j) =>
            /\ edges[translations_from[L][i]].kind = "package"
            /\ edges[translations_from[L][j]].kind \in {"package", "identity"}

\* A returned graph with composite edges out of a language that has two direct
\* edges to one destination.
C4_Witness ==
    /\ phase = "done"
    /\ \E L \in LanguageCodes :
         /\ \E c \in CompositeEdges : edges[c].from_lang = L
         /\ \E i, j \in 1..Len(translations_from[L]) : SameDestination(L, i, j)

HasSelfPackage(L) == <<L, L>> \in DirectPairs

\* C5 as stated: for every language L of a built graph L.get_translation(L)
\* returns an edge whose translate(x) is x for every text x.
C5_SelfTranslationIsIdentity ==
    phase = "done" =>
        \A L \in LanguageCodes :
            LET e == get_translation(edges, translations_from, L, L)
            IN /\ e # None
               /\ \A x \in Texts, seed \in Seeds : translate(edges, e, x, seed) = x

\* C5 amended: L.get_translation(L) always returns an edge; unless a package
\* from L's code to itself is installed it is the identity edge, whose
\* translate(x) is x for every x; with such a package it is that package's
\* direct edge.
C5_SelfTranslation ==
    phase = "done" =>
        \A L \in LanguageCodes :
            LET e == get_translation(edges, translations_from, L, L)
            IN /\ e # None
               /\ edges[e].from_lang = L /\ edges[e].to_lang = L
               /\ IF HasSelfPackage(L)
                    THEN edges[e].kind = "package"
                    ELSE /\ edges[e].kind = "identity"
                         /\ \A x \in Texts, seed \in Seeds :
                              translate(edges, e, x, seed) = x

\* A built graph with a cycle en -> M -> en and no package from en to itself.
C5_Witness ==
    /\ phase = "done"
    /\ "en" \in LanguageCodes
    /\ ~HasSelfPackage("en")
    /\ \E M \in LanguageCodes \ {"en"} :
         <<"en", M>> \in DirectPairs /\ <<M, "en">> \in DirectPairs

\* C6: for distinct languages A, C with no direct edge A->C but direct edges A->B
\* and B->C, get_translation_from_codes(A, C) returns a CompositeTranslation; and
\* translate(x) of every composite edge equals t2.translate(t1.translate(x)).
C6_PivotSynthesis ==
    /\ phase = "done" =>
         \A A \in LanguageCodes : \A C \in LanguageCodes \ {A} :
            (/\ <<A, C>> \notin DirectPairs
             /\ \E B \in LanguageCodes : <<A, B>> \in DirectPairs /\ <<B, C>> \in DirectPairs)
            => LET r == get_translation_from_codes(languages, edges, translations_from, A, C)
               IN r.outcome = "return" /\ IsComposite(r.edge)
    /\ (result.op = "translate" /\ IsComposite(result.edge)) =>
         result.value =
            translate(edges, edges[result.edge].t2,
                      translate(edges, edges[result.edge].t1, result.text, result.seed),
                      result.seed)

\* translate() was called on the composite of two direct edges and changed the text.
C6_Witness ==
    /\ result.op = "translate"
    /\ IsComposite(result.edge)
    /\ edges[edges[result.edge].t1].kind = "package"
    /\ edges[edges[result.edge].t2].kind = "package"
    /\ result.value # result.text
    /\ translate(edges, edges[result.edge].t2, result.text, result.seed) # result.value

\* C7: the backend handle of a PackageTranslation edge is constructed at most
\* once, however many hypotheses() calls are made on it, concurrent ones included.
C7_AtMostOneInit ==
    \A k \in DOMAIN constructed : constructed[k] <= 1

\* C8: CompositeTranslation.hypotheses(text, n) returns exactly n hypotheses for
\* every n >= 1 (its sub-edges return n hypotheses for every call with n).
C8_ExactlyN ==
    (result.op = "hypotheses" /\ IsComposite(result.edge)) =>
        /\ Len(result.value) = result.n
        /\ Len(hypotheses(edges, edges[result.edge].t1, result.text, result.n, result.seed))
             = result.n
        /\ \A x \in Texts :
             Len(hypotheses(edges, edges[result.edge].t2, x, result.n, result.seed))
               = result.n

\* hypotheses() returned for n = MaxHyp on a composite edge one of whose parts is composite.
C8_Witness ==
    /\ result.op = "hypotheses"
    /\ IsComposite(result.edge)
    /\ result.n = MaxHyp
    /\ Len(result.value) = MaxHyp
    /\ (IsComposite(edges[result.edge].t1) \/ IsComposite(edges[result.edge].t2))

\* C9: get_language_from_code(code) raises and returns no Language when no
\* discovered language has that code; otherwise it returns a Language with
\* exactly that code.
C9_LanguageFromCode ==
    result.op = "get_language_from_code" =>
        IF result.code \in LanguageCodes
        THEN /\ result.outcome = "return"
             /\ Len(result.value) = 1
             /\ result.value[1].code = result.code
        ELSE /\ result.outcome = "IndexError"
             /\ result.value = <<>>

\* An unknown code was requested from a graph that has languages.
C9_Witness ==
    /\ result.op = "get_language_from_code"
    /\ result.code \notin LanguageCodes
    /\ languages # <<>>
    /\ result.outcome = "IndexError"

\* The position of the closure: language, pass over its list, element of the
\* list, element of the pivot's list.
Position == <<li, passes, ti, t2i>>

RECURSIVE LexLess(_, _)
LexLess(a, b) ==
    IF a = <<>> THEN FALSE
    ELSE Head(a) < Head(b) \/ (Head(a) = Head(b) /\ LexLess(Tail(a), Tail(b)))

CompositesFrom(L) == {e \in CompositeEdges : edges[e].from_lang = L}

\* The bounds of the closure's position and of the lists it scans.
ClosureBounded ==
    /\ 1 <= li /\ li <= Len(languages) /\ Len(languages) <= Len(Codes)
    /\ 1 <= passes /\ passes <= Len(languages)
    /\ 1 <= ti /\ ti <= Len(translations_from[CurLanguage])
    /\ 1 <= t2i /\ t2i <= Len(translations_from[CurPivot]) + 1
    /\ \A L \in LanguageCodes :
         /\ Cardinality(CompositesFrom(L)) <= Len(languages) - 1
         /\ Len(translations_from[L]) <= Len(packages) + Len(languages)

\* C10: the pivot closure of get_installed_languages() terminates for every
\* list of packages.  Every step of the closure moves its position forward in
\* the lexicographic order, the position stays in range (so one of the steps
\* is always possible until the return), and the position is bounded: a language gains at most one synthesized edge per
\* destination code, so its list, the scan of it and the number of passes over
\* it are bounded by the number of packages and languages.
C10_ClosureTerminates ==
    [][/\ (phase = "pivot" /\ phase' = "pivot") => LexLess(Position, Position')
       /\ (phase' = "pivot" => ClosureBounded')]_vars

\* A closure that needed a second pass and visited an edge appended during the scan.
C10_Witness ==
    /\ phase = "done"
    /\ passes = 2
    /\ \E e \in CompositeEdges : IsComposite(edges[e].t1)
    /\ \E L \in LanguageCodes : Len(translations_from[L]) = Len(Codes)
====
